---- MODULE Spec2Model ----
(***************************************************************************)
(* Model of the rdev capture loop (examples/test.rs, X11) and of the       *)
(* Windows synthesizer (src/windows/simulate.rs).                          *)
(*                                                                         *)
(* Spec     : the capture loop: the driver thread running grab() and       *)
(*            set_key_hook(), the hook thread it spawns, and the           *)
(*            environment (flips of IS_GRAB, native key events).           *)
(* FairSpec : Spec with weak fairness on the steps of the two threads;     *)
(*            the environment is under no obligation to act.               *)
(* SimSpec  : calls of simulate() and simulate_char().                     *)
(* RegistrySpec : calls that use the grab registry GRABED (insert,         *)
(*            ungrab_keys).                                                *)
(***************************************************************************)
EXTENDS Integers, Sequences, FiniteSets, TLC

VARIABLES
    IS_GRAB,          \* pub static mut IS_GRAB: bool
    GLOBAL_CALLBACK,  \* static mut GLOBAL_CALLBACK: Option<Box<dyn FnMut>>
    GRABED,           \* GRABED: Arc<Mutex<HashSet<RdevKey>>>
    xgrabs,           \* X server: keycode -> XGrabKey calls not yet released
    d_pc,             \* position of the thread that called grab()
    display,          \* set_key_hook's `display`
    t_pc,             \* position of the spawned hook thread
    t_display,        \* the closure's `display`
    t_i,              \* grab_keys: index of the key RdevKey::iter() is at
    x_event,          \* the closure's `x_event`
    queue,            \* native events queued on the thread's connection
    dequeued,         \* history: native events XNextEvent has returned
    cb_log,           \* history: Events given to the callback in Listening
    cb_since_false,   \* history: Listening callbacks since IS_GRAB fell
    open_failed,      \* history: some XOpenDisplay returned null
    flips,            \* history: writes to IS_GRAB so far
    nevents,          \* history: native events delivered so far
    fresh_pass,       \* history: Grabbing pass since IS_GRAB last rose
    stale_delivery,   \* history: an event of an enabled period reached the
                      \*          callback with no fresh pass before it
    n_spawned,        \* history: hook threads spawned
    n_joined,         \* history: hook threads joined
    reg_op,           \* registry calls: the last call made
    reg_prev_op,      \* registry calls: the call before it
    reg_before,       \* registry calls: GRABED before the last call
    reg_xcalls,       \* registry calls: the X requests of the last call
    reg_ops,          \* registry calls: calls made so far
    overflow_checks,  \* build: debug (TRUE) or release (FALSE) arithmetic
    sim_pc,           \* "idle" or "done": a synthesizer call has returned
    sim_input,        \* the argument of the last synthesizer call
    sim_os,           \* what the OS answered to that call's queries
    sim_calls,        \* the SendInput calls that call has made, in order
    sim_result,       \* what it returned: "Ok", "Err", or "panic"
    last_press        \* history: the last simulate(KeyPress) that returned

capture_vars == <<IS_GRAB, GLOBAL_CALLBACK, GRABED, xgrabs, d_pc, display,
                  t_pc, t_display, t_i, x_event, queue, dequeued, cb_log,
                  cb_since_false, open_failed, flips, nevents>>
hist_vars == <<fresh_pass, stale_delivery, n_spawned, n_joined>>
reg_vars == <<reg_op, reg_prev_op, reg_before, reg_xcalls, reg_ops>>
sim_vars == <<sim_pc, sim_input, sim_os, sim_calls, sim_result>>
vars == <<capture_vars, hist_vars, reg_vars, overflow_checks, sim_vars,
          last_press>>

(***************************************************************************)
(* Bounds                                                                  *)
(***************************************************************************)
MaxFlips == 3
MaxEvents == 4
MaxRegistryOps == 4

(***************************************************************************)
(* The Key enumeration and the X11 keycode tables (rdev::Key,              *)
(* linux_keycode_from_key, key_from_scancode): a sample of the closed      *)
(* enumeration, in declaration order.                                      *)
(***************************************************************************)
KeySeq == <<"Alt", "KeyA", "KeyB">>
Keys == {KeySeq[i] : i \in 1..Len(KeySeq)}

linux_keycode_from_key(key) ==
    CASE key = "Alt" -> 64
      [] key = "KeyA" -> 38
      [] key = "KeyB" -> 56
      [] OTHER -> 0

KeyCodes == {linux_keycode_from_key(k) : k \in Keys}

key_from_scancode(code) ==
    IF \E k \in Keys : linux_keycode_from_key(k) = code
    THEN CHOOSE k \in Keys : linux_keycode_from_key(k) = code
    ELSE "Unknown"

KEYPRESS_EVENT == 2
KEYRELEASE_EVENT == 3
MODIFIERS == 0

NoCallback == [some |-> FALSE, swallows |-> {}]
NullDisplay == "null"
OpenDisplay == "display"
ZeroedEvent == [type_ |-> 0, keycode |-> 0]

\* Native key events the X server can put on the connection's queue.
NativeEvents == [type_ : {KEYPRESS_EVENT, KEYRELEASE_EVENT},
                 keycode : {38, 56}]

(***************************************************************************)
(* Pure functions of examples/test.rs                                      *)
(***************************************************************************)
convert_event(key, is_press) ==
    [event_type |-> IF is_press THEN <<"KeyPress", key>>
                               ELSE <<"KeyRelease", key>>,
     name |-> "None",
     code |-> linux_keycode_from_key(key),
     scan_code |-> linux_keycode_from_key(key)]

\* A callback is identified by the set of keys whose KeyPress it swallows;
\* it lets every other event pass (fn callback swallows Alt, MetaLeft and
\* ControlLeft).
callback(swallows, event) ==
    IF event.event_type[1] = "KeyPress" /\ event.event_type[2] \in swallows
    THEN "None"
    ELSE "Some"

is_key_grabed(grabed, key) == key \in grabed

\* XGrabKey: one more outstanding passive grab on the keycode.
grab_key(xg, keycode) ==
    [xg EXCEPT ![keycode] = @ + 1]

\* XUngrabKey: releases the passive grabs on the keycode.
ungrab_key(xg, keycode) ==
    [xg EXCEPT ![keycode] = 0]

\* The keys the X server currently delivers exclusively to this process.
OsGrabbed == {k \in Keys : xgrabs[linux_keycode_from_key(k)] > 0}

Crashed == d_pc = "crashed"

\* What the caller of grab() has got back so far. set_key_hook() has no
\* return path (its loop has no break), so `Ok(())` on line 160 is never
\* reached, and no line of grab() builds an Err.
grab_result ==
    IF d_pc = "main" THEN "not_called"
    ELSE IF Crashed THEN "aborted"
    ELSE "running"

ListeningPcs == {"check", "XNextEvent", "callback"}

(***************************************************************************)
(* Initial state: statics as initialised, grab() not yet called.           *)
(***************************************************************************)
\* No call on the registry has been made yet.
NoOp == [fn |-> "none", key |-> "none"]
NoPress == [key |-> "none"]

SimIdle ==
    /\ sim_pc = "idle"
    /\ sim_input = [op |-> "none"]
    /\ sim_os = [op |-> "none"]
    /\ sim_calls = <<>>
    /\ sim_result = "none"

CaptureInit ==
    /\ IS_GRAB = FALSE
    /\ GLOBAL_CALLBACK = NoCallback
    /\ GRABED = {}
    /\ xgrabs = [c \in KeyCodes |-> 0]
    /\ d_pc = "main"
    /\ display = NullDisplay
    /\ t_pc = "none"
    /\ t_display = NullDisplay
    /\ t_i = 1
    /\ x_event = ZeroedEvent
    /\ queue = <<>>
    /\ dequeued = <<>>
    /\ cb_log = <<>>
    /\ cb_since_false = 0
    /\ open_failed = FALSE
    /\ flips = 0
    /\ nevents = 0
    /\ fresh_pass = "none"
    /\ stale_delivery = FALSE
    /\ n_spawned = 0
    /\ n_joined = 0
    /\ reg_op = NoOp
    /\ reg_prev_op = NoOp
    /\ reg_before = {}
    /\ reg_xcalls = <<>>
    /\ reg_ops = 0

\* The capture loop does no arithmetic whose result depends on the build.
Init ==
    /\ CaptureInit
    /\ overflow_checks = FALSE
    /\ SimIdle
    /\ last_press = NoPress

(***************************************************************************)
(* The driver: main -> grab -> set_key_hook                                *)
(***************************************************************************)
\* grab(): GLOBAL_CALLBACK = Some(Box::new(callback)); set_key_hook()
grab ==
    /\ d_pc = "main"
    /\ \E swallows \in SUBSET Keys :
        GLOBAL_CALLBACK' = [some |-> TRUE, swallows |-> swallows]
    /\ d_pc' = "XOpenDisplay"
    /\ UNCHANGED <<IS_GRAB, GRABED, xgrabs, display, t_pc, t_display, t_i,
                   x_event, queue, dequeued, cb_log, cb_since_false,
                   open_failed, flips, nevents, overflow_checks, sim_vars, reg_vars, last_press>>
    /\ UNCHANGED <<fresh_pass, stale_delivery, n_spawned, n_joined>>

\* set_key_hook(), lines 115-119: the handle is not checked; with a null
\* handle XDefaultScreen reads through it and the process dies.
set_key_hook_open ==
    /\ d_pc = "XOpenDisplay"
    /\ \E h \in {OpenDisplay, NullDisplay} :
        /\ display' = h
        /\ open_failed' = (open_failed \/ h = NullDisplay)
        /\ d_pc' = IF h = NullDisplay THEN "crashed" ELSE "loop"
    /\ UNCHANGED <<IS_GRAB, GLOBAL_CALLBACK, GRABED, xgrabs, t_pc, t_display,
                   t_i, x_event, queue, dequeued, cb_log, cb_since_false,
                   flips, nevents, overflow_checks, sim_vars, reg_vars, last_press>>
    /\ UNCHANGED <<fresh_pass, stale_delivery, n_spawned, n_joined>>

\* set_key_hook_spawn going round the loop again without handle.join().
set_key_hook_spawn_no_join ==
    /\ d_pc = "loop"
    /\ IF IS_GRAB
       THEN /\ t_pc' = "XOpenDisplay"
            /\ d_pc' = "loop"
       ELSE UNCHANGED <<t_pc, d_pc>>
    /\ n_spawned' = IF IS_GRAB THEN n_spawned + 1 ELSE n_spawned
    /\ UNCHANGED <<IS_GRAB, GLOBAL_CALLBACK, GRABED, xgrabs, display,
                   t_display, t_i, x_event, queue, dequeued, cb_log,
                   cb_since_false, open_failed, flips, nevents,
                   overflow_checks, sim_vars, reg_vars, last_press,
                   fresh_pass, stale_delivery, n_joined>>

\* set_key_hook(), lines 121-123: `loop { if IS_GRAB { spawn ...`
set_key_hook_spawn ==
    /\ d_pc = "loop"
    /\ IF IS_GRAB
       THEN /\ t_pc' = "XOpenDisplay"
            /\ d_pc' = "join"
       ELSE UNCHANGED <<t_pc, d_pc>>
    /\ UNCHANGED <<IS_GRAB, GLOBAL_CALLBACK, GRABED, xgrabs, display,
                   t_display, t_i, x_event, queue, dequeued, cb_log,
                   cb_since_false, open_failed, flips, nevents,
                   overflow_checks, sim_vars, reg_vars, last_press>>
    /\ n_spawned' = IF IS_GRAB THEN n_spawned + 1 ELSE n_spawned
    /\ UNCHANGED <<fresh_pass, stale_delivery, n_joined>>

\* set_key_hook(), line 146: handle.join()
set_key_hook_join ==
    /\ d_pc = "join"
    /\ t_pc = "exited"
    /\ t_pc' = "none"
    /\ d_pc' = "loop"
    /\ UNCHANGED <<IS_GRAB, GLOBAL_CALLBACK, GRABED, xgrabs, display,
                   t_display, t_i, x_event, queue, dequeued, cb_log,
                   cb_since_false, open_failed, flips, nevents,
                   overflow_checks, sim_vars, reg_vars, last_press>>
    /\ n_joined' = n_joined + 1
    /\ UNCHANGED <<fresh_pass, stale_delivery, n_spawned>>

(***************************************************************************)
(* The hook thread: the closure of lines 123-145                           *)
(***************************************************************************)
\* line 124: let display = XOpenDisplay(null); a fresh connection, whose
\* event queue starts empty.
thread_open ==
    /\ ~Crashed
    /\ t_pc = "XOpenDisplay"
    /\ \E h \in {OpenDisplay, NullDisplay} :
        /\ t_display' = h
        /\ open_failed' = (open_failed \/ h = NullDisplay)
    /\ t_pc' = "grab_keys"
    /\ t_i' = 1
    /\ queue' = <<>>
    /\ UNCHANGED <<IS_GRAB, GLOBAL_CALLBACK, GRABED, xgrabs, d_pc, display,
                   x_event, dequeued, cb_log, cb_since_false, flips, nevents,
                   overflow_checks, sim_vars, reg_vars, last_press>>
    /\ UNCHANGED <<fresh_pass, stale_delivery, n_spawned, n_joined>>

\* How far the Grabbing pass begun after IS_GRAB last rose has got, after
\* the iteration at index i: a pass is fresh when it began after the rise.
pass_progress(progress, i) ==
    LET begun == IF i = 1 THEN "started" ELSE progress
    IN  IF i = Len(KeySeq) /\ begun = "started" THEN "done" ELSE begun

\* Whether this iteration of grab_keys calls grab_key (line 86).
grab_keys_wants(swallows, grabed, key) ==
    LET event == convert_event(key, TRUE)
        is_none == callback(swallows, event) = "None"
    IN  is_none /\ ~is_key_grabed(grabed, key)

\* grab_keys(), lines 78-93: one iteration of `for key in RdevKey::iter()`.
\* The registry is left alone: the insert of line 89 is commented out.
\* XGrabKey on a null display reads through the handle: the process dies.
grab_keys ==
    /\ ~Crashed
    /\ t_pc = "grab_keys"
    /\ t_i <= Len(KeySeq)
    /\ LET key == KeySeq[t_i]
           keycode == linux_keycode_from_key(key)
           wants == /\ GLOBAL_CALLBACK.some
                    /\ grab_keys_wants(GLOBAL_CALLBACK.swallows, GRABED, key)
       IN  IF wants /\ t_display = NullDisplay
           THEN /\ d_pc' = "crashed"
                /\ t_pc' = "crashed"
                /\ UNCHANGED <<xgrabs, t_i, fresh_pass>>
           ELSE /\ xgrabs' = IF wants THEN grab_key(xgrabs, keycode)
                                      ELSE xgrabs
                /\ t_i' = t_i + 1
                /\ t_pc' = IF t_i = Len(KeySeq) THEN "XSelectInput"
                                                ELSE "grab_keys"
                /\ fresh_pass' = pass_progress(fresh_pass, t_i)
                /\ UNCHANGED d_pc
    /\ UNCHANGED <<IS_GRAB, GLOBAL_CALLBACK, GRABED, display, t_display,
                   x_event, queue, dequeued, cb_log, cb_since_false,
                   open_failed, flips, nevents, overflow_checks, sim_vars, reg_vars, last_press>>
    /\ UNCHANGED <<stale_delivery, n_spawned, n_joined>>

\* lines 127-128: XSelectInput(display, grab_window, KeyPressMask);
\* let mut x_event = zeroed();
thread_select_input ==
    /\ ~Crashed
    /\ t_pc = "XSelectInput"
    /\ IF t_display = NullDisplay
       THEN /\ d_pc' = "crashed"
            /\ t_pc' = "crashed"
            /\ UNCHANGED x_event
       ELSE /\ x_event' = ZeroedEvent
            /\ t_pc' = "check"
            /\ UNCHANGED d_pc
    /\ UNCHANGED <<IS_GRAB, GLOBAL_CALLBACK, GRABED, xgrabs, display,
                   t_display, t_i, queue, dequeued, cb_log, cb_since_false,
                   open_failed, flips, nevents, overflow_checks, sim_vars, reg_vars, last_press>>
    /\ UNCHANGED <<fresh_pass, stale_delivery, n_spawned, n_joined>>

\* lines 130-132: if !IS_GRAB { break; }  The closure ends after the loop:
\* nothing is ungrabbed and the display is not closed.
thread_check ==
    /\ ~Crashed
    /\ t_pc = "check"
    /\ t_pc' = IF ~IS_GRAB THEN "exited" ELSE "XNextEvent"
    /\ UNCHANGED <<IS_GRAB, GLOBAL_CALLBACK, GRABED, xgrabs, d_pc, display,
                   t_display, t_i, x_event, queue, dequeued, cb_log,
                   cb_since_false, open_failed, flips, nevents,
                   overflow_checks, sim_vars, reg_vars, last_press>>
    /\ UNCHANGED <<fresh_pass, stale_delivery, n_spawned, n_joined>>

\* line 133: XNextEvent(display, &mut x_event) blocks until the queue of
\* the connection holds an event.
thread_next_event ==
    /\ ~Crashed
    /\ t_pc = "XNextEvent"
    /\ queue # <<>>
    /\ x_event' = Head(queue)
    /\ queue' = Tail(queue)
    /\ dequeued' = Append(dequeued, Head(queue))
    /\ t_pc' = "callback"
    /\ UNCHANGED <<IS_GRAB, GLOBAL_CALLBACK, GRABED, xgrabs, d_pc, display,
                   t_display, t_i, cb_log, cb_since_false, open_failed,
                   flips, nevents, overflow_checks, sim_vars, reg_vars, last_press>>
    /\ UNCHANGED <<fresh_pass, stale_delivery, n_spawned, n_joined>>

\* listen_event with the press test made against the wrong event type.
listen_event_release_is_press(xe) ==
    LET key == key_from_scancode(xe.keycode)
        is_press == xe.type_ = KEYRELEASE_EVENT
    IN  convert_event(key, is_press)

\* The Event the Listening loop builds from a native event, lines 135-137.
listen_event(xe) ==
    LET key == key_from_scancode(xe.keycode)
        is_press == xe.type_ = KEYPRESS_EVENT
    IN  convert_event(key, is_press)

\* lines 135-143: translate x_event, call the callback, ignore its result.
thread_callback ==
    /\ ~Crashed
    /\ t_pc = "callback"
    /\ IF GLOBAL_CALLBACK.some
       THEN /\ cb_log' = Append(cb_log, listen_event(x_event))
            /\ cb_since_false' = IF IS_GRAB THEN cb_since_false
                                            ELSE cb_since_false + 1
       ELSE UNCHANGED <<cb_log, cb_since_false>>
    /\ t_pc' = "check"
    /\ UNCHANGED <<IS_GRAB, GLOBAL_CALLBACK, GRABED, xgrabs, d_pc, display,
                   t_display, t_i, x_event, queue, dequeued, open_failed,
                   flips, nevents, overflow_checks, sim_vars, reg_vars, last_press>>
    /\ stale_delivery' = (stale_delivery
           \/ (GLOBAL_CALLBACK.some /\ IS_GRAB /\ fresh_pass # "done"))
    /\ UNCHANGED <<fresh_pass, n_spawned, n_joined>>

(***************************************************************************)
(* The environment                                                         *)
(***************************************************************************)
\* Some other code of the process writes the pub static IS_GRAB.
set_is_grab ==
    /\ ~Crashed
    /\ flips < MaxFlips
    /\ IS_GRAB' = ~IS_GRAB
    /\ flips' = flips + 1
    /\ cb_since_false' = IF IS_GRAB THEN 0 ELSE cb_since_false
    /\ UNCHANGED <<GLOBAL_CALLBACK, GRABED, xgrabs, d_pc, display, t_pc,
                   t_display, t_i, x_event, queue, dequeued, cb_log,
                   open_failed, nevents, overflow_checks, sim_vars, reg_vars, last_press>>
    /\ fresh_pass' = IF ~IS_GRAB THEN "none" ELSE fresh_pass
    /\ UNCHANGED <<stale_delivery, n_spawned, n_joined>>

\* The X server queues a key event on the hook thread's connection.
native_event ==
    /\ ~Crashed
    /\ t_pc \in ListeningPcs
    /\ nevents < MaxEvents
    /\ \E e \in NativeEvents : queue' = Append(queue, e)
    /\ nevents' = nevents + 1
    /\ UNCHANGED <<IS_GRAB, GLOBAL_CALLBACK, GRABED, xgrabs, d_pc, display,
                   t_pc, t_display, t_i, x_event, dequeued, cb_log,
                   cb_since_false, open_failed, flips, overflow_checks,
                   sim_vars, reg_vars, last_press>>
    /\ UNCHANGED <<fresh_pass, stale_delivery, n_spawned, n_joined>>

DriverNext ==
    \/ grab
    \/ set_key_hook_open
    \/ set_key_hook_spawn
    \/ set_key_hook_join

ThreadNext ==
    \/ thread_open
    \/ grab_keys
    \/ thread_select_input
    \/ thread_check
    \/ thread_next_event
    \/ thread_callback

Next ==
    \/ grab
    \/ set_key_hook_open
    \/ set_key_hook_spawn
    \/ set_key_hook_join
    \/ thread_open
    \/ grab_keys
    \/ thread_select_input
    \/ thread_check
    \/ thread_next_event
    \/ thread_callback
    \/ set_is_grab
    \/ native_event

Spec == Init /\ [][Next]_vars

\* The OS schedules both threads; nothing obliges the environment to flip
\* the flag or to produce key events.
FairSpec ==
    /\ Spec
    /\ WF_vars(DriverNext)
    /\ WF_vars(ThreadNext)

(***************************************************************************)
(* Claims about the capture loop                                           *)
(***************************************************************************)
GrabbingPassDone == t_pc = "XSelectInput"

\* C1: after one full Grabbing pass started with an empty registry, the
\* registry holds exactly the keys whose KeyPress the callback swallowed.
C1_RegistryAfterPass ==
    (GrabbingPassDone /\ GLOBAL_CALLBACK.some)
        => GRABED = GLOBAL_CALLBACK.swallows

\* C2: a key is a member of GRABED if and only if an XGrabKey for it has
\* been issued and not yet released.
C2_RegistryMatchesOs ==
    \A k \in Keys : k \in GRABED <=> k \in OsGrabbed

\* C3: once the hook thread has left the Listening loop and has been
\* joined, no OS-level key grab is held.
C3_JoinedReleasedAll ==
    (d_pc = "loop" /\ t_pc = "none") => OsGrabbed = {}

\* C4: once IS_GRAB is false the Listening loop exits (unless the flag is
\* raised again), and the callback runs for at most one event after the
\* flag fell.
C4_CancellationBound ==
    /\ [](cb_since_false <= 1)
    /\ ((~IS_GRAB /\ t_pc \in ListeningPcs)
            ~> (IS_GRAB \/ t_pc \notin ListeningPcs))

\* C5: the Events given to the callback in Listening are, in order and in
\* number, the native events dequeued; each is a KeyPress exactly when the
\* native event's own type is a key press, a KeyRelease exactly when it is
\* a key release, for the key of the native keycode.
C5_ListeningOrderAndTag ==
    LET pending == IF t_pc = "callback" THEN 1 ELSE 0
    IN  /\ Len(cb_log) = Len(dequeued) - pending
        /\ \A i \in 1..Len(cb_log) :
            /\ cb_log[i].event_type[1] = "KeyPress"
                  <=> dequeued[i].type_ = KEYPRESS_EVENT
            /\ cb_log[i].event_type[1] = "KeyRelease"
                  <=> dequeued[i].type_ = KEYRELEASE_EVENT
            /\ cb_log[i].event_type[2] = key_from_scancode(dequeued[i].keycode)

\* Witness of C5: a forwarding callback has been given press A, press B,
\* release A, release B.
C5_Witness ==
    /\ GLOBAL_CALLBACK.some
    /\ GLOBAL_CALLBACK.swallows = {}
    /\ dequeued = << [type_ |-> KEYPRESS_EVENT, keycode |-> 38],
                     [type_ |-> KEYPRESS_EVENT, keycode |-> 56],
                     [type_ |-> KEYRELEASE_EVENT, keycode |-> 38],
                     [type_ |-> KEYRELEASE_EVENT, keycode |-> 56] >>
    /\ Len(cb_log) = 4
    /\ cb_log[1].event_type = <<"KeyPress", "KeyA">>
    /\ cb_log[4].event_type = <<"KeyRelease", "KeyB">>

\* C6: when an XOpenDisplay has returned null, grab() has returned Err to
\* its caller and the hook thread is in neither Grabbing nor Listening.
C6_NullHandleIsGrabError ==
    open_failed =>
        /\ grab_result = "Err"
        /\ t_pc \notin ({"grab_keys", "XSelectInput"} \cup ListeningPcs)

(***************************************************************************)
(* The Windows synthesizer, src/windows/simulate.rs                        *)
(***************************************************************************)
KEYEVENTF_KEYDOWN == 0
KEYEVENTF_KEYUP == 2
KEYUP == 2
KEYDOWN == 0
UNICODE == 4
MOUSEEVENTF_MOVE == 1
MOUSEEVENTF_LEFTDOWN == 2
MOUSEEVENTF_LEFTUP == 4
MOUSEEVENTF_RIGHTDOWN == 8
MOUSEEVENTF_RIGHTUP == 16
MOUSEEVENTF_MIDDLEDOWN == 32
MOUSEEVENTF_MIDDLEUP == 64
MOUSEEVENTF_XDOWN == 128
MOUSEEVENTF_XUP == 256
MOUSEEVENTF_WHEEL == 2048
MOUSEEVENTF_HWHEEL == 4096
MOUSEEVENTF_VIRTUALDESK == 16384
MOUSEEVENTF_ABSOLUTE == 32768
WHEEL_DELTA == 120
VK_HANGUL == 21
LANG_KOREAN == 1042

I16Min == -32768
I16Max == 32767
InI16(n) == I16Min <= n /\ n <= I16Max

\* The i16 with the low 16 bits of n.
WrapI16(n) == ((n + 32768) % 65536) - 32768

\* Rust's integer division truncates toward zero (b > 0).
TruncDiv(a, b) == IF a >= 0 THEN a \div b ELSE -((-a) \div b)

\* What SendInput can report for one INPUT: the number of events inserted.
SendReturns == {0, 1, 2}

\* Inputs of the calls explored.
WheelDeltas == {-40000, -274, -1, 0, 1, 273, 300, 40000}
MoveCoords == {-1, 0, 959, 40000}
ScreenWidths == {0, 1920}
ScreenHeights == {0, 1080}
Buttons == {<<"Left">>, <<"Middle">>, <<"Right">>, <<"Unknown", 1>>,
            <<"Unknown", 2>>}
Layouts == {1033, 1036, LANG_KOREAN}
WinKeys == {"AltGr", "KeyA", "Pause"}
Chars == {97, 65, 8364, 65633, 128512}

\* sim_mouse_event(): one SendInput of a MOUSEINPUT; `value` is what
\* SendInput returned.  DWORDs are written as the i32 with the same bits.
sim_mouse_event(flags, data, dx, dy, value) ==
    [input |-> [type_ |-> "INPUT_MOUSE", dx |-> dx, dy |-> dy,
                mouseData |-> data, dwFlags |-> flags],
     value |-> value,
     result |-> IF value # 1 THEN "Err" ELSE "Ok"]

\* sim_keyboard_event taking any non-zero count for success.
sim_keyboard_event_nonzero(flags, vk, scan, value) ==
    [input |-> [type_ |-> "INPUT_KEYBOARD", wVk |-> vk, wScan |-> scan,
                dwFlags |-> flags],
     value |-> value,
     result |-> IF value = 0 THEN "Err" ELSE "Ok"]

\* sim_keyboard_event(): one SendInput of a KEYBDINPUT.
sim_keyboard_event(flags, vk, scan, value) ==
    [input |-> [type_ |-> "INPUT_KEYBOARD", wVk |-> vk, wScan |-> scan,
                dwFlags |-> flags],
     value |-> value,
     result |-> IF value # 1 THEN "Err" ELSE "Ok"]

\* What a call of simulate() that made exactly one injection call returns.
OneCall(c) == [calls |-> <<c>>, result |-> c.result]
NoCall(r) == [calls |-> <<>>, result |-> r]

\* get_win_codes(key) -> (code, scancode), crate::windows::keycodes.
get_win_codes(key) ==
    CASE key = "AltGr" -> <<165, 57400>>
      [] key = "KeyA" -> <<65, 30>>
      [] key = "Pause" -> <<19, 0>>
      [] OTHER -> <<0, 0>>

\* MapVirtualKeyExW(scancode, MAPVK_VSC_TO_VK_EX, layout): the platform's
\* conversion; under the French layout scan code 0x1E is the Q key.
MapVirtualKeyExW(scancode, layout) ==
    CASE scancode = 30 /\ layout = 1036 -> 81
      [] scancode = 30 -> 65
      [] scancode = 57400 -> 165
      [] OTHER -> 0

\* `code.try_into().unwrap()`: u32 -> WORD, panics when it does not fit.
key_event(flags, code, value) ==
    IF code > 65535 THEN NoCall("panic")
    ELSE OneCall(sim_keyboard_event(flags, code, 0, value))

\* simulate(), EventType::KeyPress(key), lines 84-102.
simulate_key_press(key, layout, value) ==
    LET codes == get_win_codes(key)
        code0 == codes[1]
        scancode == codes[2]
        code == IF code0 = 165 /\ layout = LANG_KOREAN THEN VK_HANGUL
                ELSE IF code0 = 165 THEN 165
                ELSE IF scancode # 0 THEN MapVirtualKeyExW(scancode, layout)
                ELSE code0
    IN  key_event(KEYEVENTF_KEYDOWN, code, value)

\* simulate_key_release injecting the tabulated code whatever the scan code.
simulate_key_release_tabulated(key, layout, value) ==
    key_event(KEYEVENTF_KEYUP, get_win_codes(key)[1], value)

\* simulate(), EventType::KeyRelease(key), lines 103-119.
simulate_key_release(key, layout, value) ==
    LET codes == get_win_codes(key)
        code0 == codes[1]
        scancode == codes[2]
        code == IF code0 = 165 THEN 165
                ELSE IF scancode # 0 THEN MapVirtualKeyExW(scancode, layout)
                ELSE code0
    IN  key_event(KEYEVENTF_KEYUP, code, value)

\* simulate(), EventType::ButtonPress(button), lines 120-125.
simulate_button_press(button, value) ==
    OneCall(CASE button[1] = "Left" ->
                   sim_mouse_event(MOUSEEVENTF_LEFTDOWN, 0, 0, 0, value)
              [] button[1] = "Middle" ->
                   sim_mouse_event(MOUSEEVENTF_MIDDLEDOWN, 0, 0, 0, value)
              [] button[1] = "Right" ->
                   sim_mouse_event(MOUSEEVENTF_RIGHTDOWN, 0, 0, 0, value)
              [] button[1] = "Unknown" ->
                   sim_mouse_event(MOUSEEVENTF_XDOWN, 0, 0, button[2], value))

\* simulate(), EventType::ButtonRelease(button), lines 126-131.
simulate_button_release(button, value) ==
    OneCall(CASE button[1] = "Left" ->
                   sim_mouse_event(MOUSEEVENTF_LEFTUP, 0, 0, 0, value)
              [] button[1] = "Middle" ->
                   sim_mouse_event(MOUSEEVENTF_MIDDLEUP, 0, 0, 0, value)
              [] button[1] = "Right" ->
                   sim_mouse_event(MOUSEEVENTF_RIGHTUP, 0, 0, 0, value)
              [] button[1] = "Unknown" ->
                   sim_mouse_event(MOUSEEVENTF_XUP, 0, 0, button[2], value))

\* One axis of the Wheel arm, lines 134-139 / 143-148:
\*   sim_mouse_event(flag,
\*       (c_short::try_from(delta).map_err(|_| SimulateError)?
\*           * WHEEL_DELTA) as u32, 0, 0)?
\* The product is an i16: with overflow checks it panics when it does not
\* fit, without them it wraps.
wheel_axis(flag, delta, checks, value) ==
    IF ~InI16(delta) THEN NoCall("Err")
    ELSE LET product == delta * WHEEL_DELTA
         IN  IF ~InI16(product) /\ checks THEN NoCall("panic")
             ELSE OneCall(sim_mouse_event(flag, WrapI16(product), 0, 0,
                                          value))

\* simulate_wheel going on to the vertical axis after a horizontal failure.
simulate_wheel_no_short_circuit(delta_x, delta_y, checks, value_x, value_y) ==
    LET h == IF delta_x # 0
             THEN wheel_axis(MOUSEEVENTF_HWHEEL, delta_x, checks, value_x)
             ELSE NoCall("Ok")
        v == IF delta_y # 0
             THEN wheel_axis(MOUSEEVENTF_WHEEL, delta_y, checks, value_y)
             ELSE NoCall("Ok")
    IN  [calls |-> h.calls \o v.calls,
         result |-> IF h.result # "Ok" THEN h.result ELSE v.result]

\* simulate(), EventType::Wheel { delta_x, delta_y }, lines 132-151.
simulate_wheel(delta_x, delta_y, checks, value_x, value_y) ==
    LET h == IF delta_x # 0
             THEN wheel_axis(MOUSEEVENTF_HWHEEL, delta_x, checks, value_x)
             ELSE NoCall("Ok")
    IN  IF h.result # "Ok" THEN h
        ELSE LET v == IF delta_y # 0
                      THEN wheel_axis(MOUSEEVENTF_WHEEL, delta_y, checks,
                                      value_y)
                      ELSE NoCall("Ok")
             IN  [calls |-> h.calls \o v.calls, result |-> v.result]

\* a * 65535 in i32 arithmetic without overflow checks, for the
\* coordinates explored (|a| < 98304).
WrapMul65535(a) ==
    IF a > 32768 THEN (a - 65536) * 65535 - 65536
    ELSE IF a < -32768 THEN (a + 65536) * 65535 + 65536
    ELSE a * 65535

\* (coordinate as i32 + 1) * 65535 / dimension, lines 162-163: whether
\* the i32 arithmetic overflows, and the value when it does not panic.
normalize_overflows(coordinate) ==
    LET a == coordinate + 1
    IN  a > 32768 \/ a < -32768

normalize(coordinate, dimension) ==
    TruncDiv(WrapMul65535(coordinate + 1), dimension)

\* simulate_mouse_move refusing only a desktop with both dimensions zero.
simulate_mouse_move_both_zero(x, y, width, height, checks, value) ==
    IF width = 0 /\ height = 0 THEN NoCall("Err")
    ELSE IF checks /\ (normalize_overflows(x) \/ normalize_overflows(y))
    THEN NoCall("panic")
    ELSE OneCall(sim_mouse_event(
             MOUSEEVENTF_MOVE + MOUSEEVENTF_ABSOLUTE + MOUSEEVENTF_VIRTUALDESK,
             0,
             IF width = 0 THEN 0 ELSE normalize(x, width),
             IF height = 0 THEN 0 ELSE normalize(y, height), value))

\* simulate(), EventType::MouseMove { x, y }, lines 152-165.
simulate_mouse_move(x, y, width, height, checks, value) ==
    IF width = 0 \/ height = 0 THEN NoCall("Err")
    ELSE IF checks /\ (normalize_overflows(x) \/ normalize_overflows(y))
    THEN NoCall("panic")
    ELSE OneCall(sim_mouse_event(
             MOUSEEVENTF_MOVE + MOUSEEVENTF_ABSOLUTE + MOUSEEVENTF_VIRTUALDESK,
             0, normalize(x, width), normalize(y, height), value))

\* VkKeyScanW(chr as u16): low byte the virtual key, high byte the shift
\* state, -1 when the layout has no key for the character.
VkKeyScanW(chr16) ==
    CASE chr16 = 97 -> 65
      [] chr16 = 65 -> 321
      [] OTHER -> -1

\* simulate_char taking every character the layout has a key for down the
\* virtual-key path, whatever its shift state.
simulate_char_resolvable(chr, pressed, value) ==
    LET chr16 == chr % 65536
        res == VkKeyScanW(chr16)
        vk == IF res # -1 THEN res % 256 ELSE 0
        scan == IF res # -1 THEN 0 ELSE chr16
        flags == IF res # -1 THEN 0 ELSE UNICODE
        state_flags == IF pressed THEN KEYDOWN ELSE KEYUP
    IN  OneCall(sim_keyboard_event(flags + state_flags, vk, scan, value))

\* simulate_char(), lines 169-180.
simulate_char(chr, pressed, value) ==
    LET chr16 == chr % 65536
        res == VkKeyScanW(chr16)
        shift_state == ((res % 65536) \div 256) % 256
        vk == IF shift_state = 0 THEN res % 256 ELSE 0
        scan == IF shift_state = 0 THEN 0 ELSE chr16
        flags == IF shift_state = 0 THEN 0 ELSE UNICODE
        state_flags == IF pressed THEN KEYDOWN ELSE KEYUP
    IN  OneCall(sim_keyboard_event(flags + state_flags, vk, scan, value))

(***************************************************************************)
(* Calls of the synthesizer                                                *)
(***************************************************************************)
SimInit ==
    /\ CaptureInit
    /\ overflow_checks \in BOOLEAN
    /\ SimIdle
    /\ last_press = NoPress

Returned(input, os, r) ==
    /\ sim_pc' = "done"
    /\ sim_input' = input
    /\ sim_os' = os
    /\ sim_calls' = r.calls
    /\ sim_result' = r.result
    /\ UNCHANGED <<capture_vars, hist_vars, reg_vars, overflow_checks>>

call_key_press ==
    /\ sim_pc = "idle"
    /\ \E key \in WinKeys, layout \in Layouts, value \in SendReturns :
           /\ Returned([op |-> "KeyPress", key |-> key],
                       [op |-> "KeyPress", layout |-> layout],
                       simulate_key_press(key, layout, value))
           /\ last_press' = [key |-> key, layout |-> layout,
                             calls |-> simulate_key_press(key, layout,
                                                          value).calls]

call_key_release ==
    /\ sim_pc = "idle"
    /\ \E key \in WinKeys, layout \in Layouts, value \in SendReturns :
           Returned([op |-> "KeyRelease", key |-> key],
                    [op |-> "KeyRelease", layout |-> layout],
                    simulate_key_release(key, layout, value))
    /\ UNCHANGED last_press

call_button_press ==
    /\ sim_pc = "idle"
    /\ \E button \in Buttons, value \in SendReturns :
           Returned([op |-> "ButtonPress", button |-> button],
                    [op |-> "ButtonPress"],
                    simulate_button_press(button, value))
    /\ UNCHANGED last_press

call_button_release ==
    /\ sim_pc = "idle"
    /\ \E button \in Buttons, value \in SendReturns :
           Returned([op |-> "ButtonRelease", button |-> button],
                    [op |-> "ButtonRelease"],
                    simulate_button_release(button, value))
    /\ UNCHANGED last_press

call_wheel ==
    /\ sim_pc = "idle"
    /\ \E delta_x \in WheelDeltas, delta_y \in WheelDeltas,
          value_x \in SendReturns, value_y \in SendReturns :
           Returned([op |-> "Wheel", delta_x |-> delta_x, delta_y |-> delta_y],
                    [op |-> "Wheel"],
                    simulate_wheel(delta_x, delta_y, overflow_checks,
                                   value_x, value_y))
    /\ UNCHANGED last_press

call_mouse_move ==
    /\ sim_pc = "idle"
    /\ \E x \in MoveCoords, y \in MoveCoords, width \in ScreenWidths,
          height \in ScreenHeights, value \in SendReturns :
           Returned([op |-> "MouseMove", x |-> x, y |-> y],
                    [op |-> "MouseMove", width |-> width, height |-> height],
                    simulate_mouse_move(x, y, width, height, overflow_checks,
                                        value))
    /\ UNCHANGED last_press

call_simulate_char ==
    /\ sim_pc = "idle"
    /\ \E chr \in Chars, pressed \in BOOLEAN, value \in SendReturns :
           Returned([op |-> "simulate_char", chr |-> chr, pressed |-> pressed],
                    [op |-> "simulate_char"],
                    simulate_char(chr, pressed, value))
    /\ UNCHANGED last_press

\* The caller has taken the result; the next call can be made.
call_done ==
    /\ sim_pc = "done"
    /\ sim_pc' = "idle"
    /\ sim_input' = [op |-> "none"]
    /\ sim_os' = [op |-> "none"]
    /\ sim_calls' = <<>>
    /\ sim_result' = "none"
    /\ UNCHANGED <<capture_vars, hist_vars, reg_vars, overflow_checks, last_press>>

SimNext ==
    \/ call_key_press
    \/ call_key_release
    \/ call_button_press
    \/ call_button_release
    \/ call_wheel
    \/ call_mouse_move
    \/ call_simulate_char
    \/ call_done

SimSpec == SimInit /\ [][SimNext]_vars

(***************************************************************************)
(* Claims about the synthesizer                                            *)
(***************************************************************************)
Done(op) == sim_pc = "done" /\ sim_input.op = op

\* The injection calls of the last synthesizer call that carry `flag`.
AxisCalls(flag) ==
    {i \in 1..Len(sim_calls) : sim_calls[i].input.dwFlags = flag}

OutOfRange(delta) == delta # 0 /\ ~InI16(delta)

\* C7: simulate(Wheel) returns SimulateError whenever a non-zero delta is
\* outside [-32768, 32767], and makes no injection call for that axis.
C7_WheelOutOfRange ==
    Done("Wheel") =>
        /\ OutOfRange(sim_input.delta_x) =>
              sim_result = "Err" /\ AxisCalls(MOUSEEVENTF_HWHEEL) = {}
        /\ OutOfRange(sim_input.delta_y) =>
              sim_result = "Err" /\ AxisCalls(MOUSEEVENTF_WHEEL) = {}

\* C8: simulate(MouseMove) returns SimulateError and makes no injection
\* call whenever the queried screen width or height is 0.
C8_ZeroScreenGuard ==
    (Done("MouseMove") /\ (sim_os.width = 0 \/ sim_os.height = 0))
        => sim_result = "Err" /\ sim_calls = <<>>

\* Witness of C8: a MouseMove against a desktop of width 0 and non-zero
\* height has returned.
C8_Witness ==
    /\ Done("MouseMove")
    /\ sim_os.width = 0
    /\ sim_os.height # 0
    /\ sim_result = "Err"

\* C9: simulate(Wheel) calls the horizontal axis before the vertical one,
\* at most once each; an axis with delta 0 gets no call; after a failed
\* horizontal call the vertical one is not attempted and the error is
\* returned; the result is Ok only if every attempted call succeeded, and
\* then every non-zero axis was called.
C9_WheelOrderAndShortCircuit ==
    Done("Wheel") =>
        LET H == AxisCalls(MOUSEEVENTF_HWHEEL)
            V == AxisCalls(MOUSEEVENTF_WHEEL)
        IN  /\ H \cup V = 1..Len(sim_calls)
            /\ Cardinality(H) <= 1
            /\ Cardinality(V) <= 1
            /\ \A i \in H, j \in V : i < j
            /\ sim_input.delta_x = 0 => H = {}
            /\ sim_input.delta_y = 0 => V = {}
            /\ (\E i \in H : sim_calls[i].result = "Err")
                  => V = {} /\ sim_result = "Err"
            /\ sim_result = "Ok" =>
                  /\ \A i \in 1..Len(sim_calls) : sim_calls[i].result = "Ok"
                  /\ sim_input.delta_x # 0 => H # {}
                  /\ sim_input.delta_y # 0 => V # {}

\* Witness of C9: both deltas non-zero, the horizontal call failed.
C9_Witness ==
    /\ Done("Wheel")
    /\ sim_input.delta_x # 0
    /\ sim_input.delta_y # 0
    /\ Len(sim_calls) = 1
    /\ sim_calls[1].input.dwFlags = MOUSEEVENTF_HWHEEL
    /\ sim_calls[1].result = "Err"
    /\ sim_result = "Err"

\* C10: every injection call returns Ok if and only if SendInput reported
\* exactly one event; a call of simulate or simulate_char that made an
\* injection call returns Ok only if every call reported one, and
\* SimulateError as soon as one reported another count.
C10_CountChecked ==
    sim_pc = "done" =>
        /\ \A i \in 1..Len(sim_calls) :
              sim_calls[i].result = "Ok" <=> sim_calls[i].value = 1
        /\ sim_result = "Ok" =>
              \A i \in 1..Len(sim_calls) : sim_calls[i].value = 1
        /\ (\E i \in 1..Len(sim_calls) : sim_calls[i].value # 1)
              => sim_result = "Err"
        /\ (sim_result = "Ok" /\ sim_input.op # "Wheel")
              => Len(sim_calls) = 1

\* Witness of C10: a keyboard injection for which SendInput reported two
\* events has been turned into SimulateError.
C10_Witness ==
    /\ sim_pc = "done"
    /\ sim_input.op \in {"KeyPress", "KeyRelease", "simulate_char"}
    /\ Len(sim_calls) = 1
    /\ sim_calls[1].value = 2
    /\ sim_result = "Err"

(***************************************************************************)
(* The grab registry, examples/test.rs: calls that use GRABED               *)
(***************************************************************************)
\* GRABED.lock().unwrap().insert(key) with the key removed when present.
GRABED_insert_toggle(grabed, key) ==
    IF key \in grabed THEN grabed \ {key} ELSE grabed \cup {key}

\* GRABED.lock().unwrap().insert(key), line 54 (and the commented line 89):
\* HashSet::insert.
GRABED_insert(grabed, key) == grabed \cup {key}

\* ungrab_keys(), lines 50-56, from index i of RdevKey::iter() on: for a
\* key that is grabbed, grab_key (XGrabKey) and insert into GRABED.
RECURSIVE ungrab_keys_loop(_, _, _, _)
ungrab_keys_loop(i, grabed, xg, xcalls) ==
    IF i > Len(KeySeq)
    THEN [grabed |-> grabed, xgrabs |-> xg, xcalls |-> xcalls]
    ELSE LET key == KeySeq[i]
             keycode == linux_keycode_from_key(key)
         IN  IF is_key_grabed(grabed, key)
             THEN ungrab_keys_loop(
                      i + 1, GRABED_insert(grabed, key),
                      grab_key(xg, keycode),
                      Append(xcalls, [fn |-> "XGrabKey",
                                      keycode |-> keycode]))
             ELSE ungrab_keys_loop(i + 1, grabed, xg, xcalls)

\* Code of the process marks a key as grabbed: GRABED is a pub static, and
\* insert is the only mutation the source applies to it.
mark_grabbed ==
    /\ reg_ops < MaxRegistryOps
    /\ \E key \in Keys :
        /\ GRABED' = GRABED_insert(GRABED, key)
        /\ reg_op' = [fn |-> "insert", key |-> key]
    /\ reg_prev_op' = reg_op
    /\ reg_before' = GRABED
    /\ reg_xcalls' = <<>>
    /\ reg_ops' = reg_ops + 1
    /\ UNCHANGED <<IS_GRAB, GLOBAL_CALLBACK, xgrabs, d_pc, display, t_pc,
                   t_display, t_i, x_event, queue, dequeued, cb_log,
                   cb_since_false, open_failed, flips, nevents, hist_vars,
                   overflow_checks, sim_vars, last_press>>

\* ungrab_keys(display, grab_window) on an open display, lines 49-57.
ungrab_keys ==
    /\ reg_ops < MaxRegistryOps
    /\ LET r == ungrab_keys_loop(1, GRABED, xgrabs, <<>>)
       IN  /\ GRABED' = r.grabed
           /\ xgrabs' = r.xgrabs
           /\ reg_xcalls' = r.xcalls
    /\ reg_prev_op' = reg_op
    /\ reg_op' = [fn |-> "ungrab_keys", key |-> "none"]
    /\ reg_before' = GRABED
    /\ reg_ops' = reg_ops + 1
    /\ UNCHANGED <<IS_GRAB, GLOBAL_CALLBACK, d_pc, display, t_pc,
                   t_display, t_i, x_event, queue, dequeued, cb_log,
                   cb_since_false, open_failed, flips, nevents, hist_vars,
                   overflow_checks, sim_vars, last_press>>

RegistryNext ==
    \/ mark_grabbed
    \/ ungrab_keys

RegistrySpec == Init /\ [][RegistryNext]_vars

\* C11: inserting a key that was just inserted (or is already a member)
\* leaves the registry as it was: one membership for the key, the same
\* size, is_key_grabed true, every other key's membership unchanged.
C11_InsertIdempotent ==
    /\ (reg_op.fn = "insert" /\ reg_op.key \in reg_before) =>
          /\ GRABED = reg_before
          /\ Cardinality(GRABED) = Cardinality(reg_before)
    /\ reg_op.fn = "insert" =>
          /\ is_key_grabed(GRABED, reg_op.key)
          /\ Cardinality({k \in GRABED : k = reg_op.key}) = 1
          /\ \A k \in Keys \ {reg_op.key} :
                is_key_grabed(GRABED, k) <=> is_key_grabed(reg_before, k)
    /\ reg_op.fn = "ungrab_keys" => GRABED = reg_before

\* Witness of C11: the same key has been inserted twice in sequence into
\* a registry that holds another key as well.
C11_Witness ==
    /\ reg_op.fn = "insert"
    /\ reg_prev_op = reg_op
    /\ Cardinality(GRABED) = 2

\* The keycodes for which the last registry call issued the X request fn.
XCalled(fn) ==
    {reg_xcalls[i].keycode : i \in {j \in 1..Len(reg_xcalls) :
                                       reg_xcalls[j].fn = fn}}

\* C20: ungrab_keys issues XUngrabKey for exactly the members of the
\* registry and no XGrabKey; after it no key is grabbed at the OS level
\* and no released key is still a member.
C20_UngrabKeysReleases ==
    reg_op.fn = "ungrab_keys" =>
        /\ XCalled("XUngrabKey")
              = {linux_keycode_from_key(k) : k \in reg_before}
        /\ XCalled("XGrabKey") = {}
        /\ OsGrabbed = {}
        /\ GRABED \cap reg_before = {}

(***************************************************************************)
(* Further claims about the synthesizer                                    *)
(***************************************************************************)
\* Bits of a KEYBDINPUT's dwFlags.
KeyUpFlag(input) == (input.dwFlags \div KEYEVENTF_KEYUP) % 2 = 1
UnicodeFlag(input) == (input.dwFlags \div UNICODE) % 2 = 1

\* The OS has a key for the character: VkKeyScanW takes one UTF-16 unit
\* and answers -1 when the layout has none.
Resolvable(chr) == chr <= 65535 /\ VkKeyScanW(chr) # -1

\* The shift state VkKeyScanW reports for the character (high byte).
VkShiftState(chr) == ((VkKeyScanW(chr) % 65536) \div 256) % 256

DoneKey == sim_pc = "done" /\ sim_input.op \in {"KeyPress", "KeyRelease"}

\* The virtual code scan-code precedence selects for a key under a layout.
PrecedenceCode(key, layout) ==
    IF get_win_codes(key)[2] # 0
    THEN MapVirtualKeyExW(get_win_codes(key)[2], layout)
    ELSE get_win_codes(key)[1]

\* C13 (as claimed): the injected virtual code is the platform's
\* conversion of the scan code when that is non-zero, the tabulated code
\* when it is 0, and always 165 for the AltGr key (tabulated 165), for
\* KeyPress and KeyRelease alike.
C13_ScanCodePrecedence ==
    DoneKey =>
        /\ Len(sim_calls) = 1
        /\ sim_calls[1].input.wVk =
              IF get_win_codes(sim_input.key)[1] = 165 THEN 165
              ELSE PrecedenceCode(sim_input.key, sim_os.layout)

\* C13 (amended): as claimed, except that KeyPress of the AltGr key under
\* the Korean layout (low word 0x0412) injects VK_HANGUL instead of 165.
C13_ScanCodePrecedenceKorean ==
    DoneKey =>
        /\ Len(sim_calls) = 1
        /\ sim_calls[1].input.wVk =
              IF get_win_codes(sim_input.key)[1] = 165
              THEN IF sim_input.op = "KeyPress"
                      /\ sim_os.layout = LANG_KOREAN
                   THEN VK_HANGUL
                   ELSE 165
              ELSE PrecedenceCode(sim_input.key, sim_os.layout)

\* Witness of C13: KeyA released under the French layout, where the scan
\* code converts to another code (81) than the tabulated one (65).
C13_Witness ==
    /\ Done("KeyRelease")
    /\ sim_input.key = "KeyA"
    /\ sim_os.layout = 1036
    /\ Len(sim_calls) = 1
    /\ sim_calls[1].input.wVk = 81

\* The delta of the axis an injection call of simulate(Wheel) is for.
AxisDelta(call) ==
    IF call.input.dwFlags = MOUSEEVENTF_HWHEEL THEN sim_input.delta_x
    ELSE sim_input.delta_y

\* C17: simulate(Wheel) injects, on each axis it calls, exactly
\* delta * WHEEL_DELTA, or returns SimulateError; it never aborts.
C17_WheelExactOrError ==
    Done("Wheel") =>
        /\ sim_result \in {"Ok", "Err"}
        /\ \A i \in 1..Len(sim_calls) :
              sim_calls[i].input.mouseData
                  = AxisDelta(sim_calls[i]) * WHEEL_DELTA

\* The dwFlags simulate must use for a button, going down or up.
ButtonFlag(button, down) ==
    CASE button[1] = "Left" ->
           IF down THEN MOUSEEVENTF_LEFTDOWN ELSE MOUSEEVENTF_LEFTUP
      [] button[1] = "Middle" ->
           IF down THEN MOUSEEVENTF_MIDDLEDOWN ELSE MOUSEEVENTF_MIDDLEUP
      [] button[1] = "Right" ->
           IF down THEN MOUSEEVENTF_RIGHTDOWN ELSE MOUSEEVENTF_RIGHTUP
      [] button[1] = "Unknown" ->
           IF down THEN MOUSEEVENTF_XDOWN ELSE MOUSEEVENTF_XUP

\* C18: simulate(ButtonPress/ButtonRelease) makes exactly one mouse
\* injection call, with the button's down/up flag, dx = dy = 0, and
\* mouseData 0 for Left, Middle, Right and the code for Unknown(code).
C18_ButtonCall ==
    (sim_pc = "done" /\ sim_input.op \in {"ButtonPress", "ButtonRelease"})
        => /\ Len(sim_calls) = 1
           /\ sim_calls[1].input.type_ = "INPUT_MOUSE"
           /\ sim_calls[1].input.dwFlags
                 = ButtonFlag(sim_input.button, sim_input.op = "ButtonPress")
           /\ sim_calls[1].input.dx = 0
           /\ sim_calls[1].input.dy = 0
           /\ sim_calls[1].input.mouseData
                 = IF sim_input.button[1] = "Unknown"
                   THEN sim_input.button[2] ELSE 0

\* C19: a KeyRelease of the key last pressed, under the layout that press
\* saw, is one keyboard injection call with the key-up flag and the
\* virtual code of the press, itself one call with the key-down flag.
C19_PressReleaseSameKey ==
    (Done("KeyRelease") /\ last_press.key = sim_input.key
                        /\ last_press.layout = sim_os.layout)
        => /\ Len(sim_calls) = 1
           /\ Len(last_press.calls) = 1
           /\ sim_calls[1].input.dwFlags = KEYEVENTF_KEYUP
           /\ last_press.calls[1].input.dwFlags = KEYEVENTF_KEYDOWN
           /\ sim_calls[1].input.wVk = last_press.calls[1].input.wVk

(***************************************************************************)
(* Further claims about the capture loop                                   *)
(***************************************************************************)
\* C14: every rise of IS_GRAB is followed by a fresh Grabbing pass before
\* a native event of that enabled period is given to the callback.
C14_FreshPassBeforeDelivery == ~stale_delivery

\* C15: when a Grabbing pass has completed, the keys grabbed at the OS
\* level are exactly those whose KeyPress the callback swallows, and no
\* key has more than one outstanding OS grab.
C15_GrabSetFollowsCallback ==
    (GrabbingPassDone /\ GLOBAL_CALLBACK.some) =>
        /\ OsGrabbed = GLOBAL_CALLBACK.swallows
        /\ \A c \in KeyCodes : xgrabs[c] <= 1

\* Hook threads spawned and not yet joined.
LiveThreads == n_spawned - n_joined

\* C16: at most one hook thread exists; the driver is back at the top of
\* its loop, where it may spawn, only when every thread has been joined;
\* and a dequeued native event has been given to the callback before the
\* next one is dequeued.
C16_OneThreadNoOverlap ==
    /\ LiveThreads \in {0, 1}
    /\ LiveThreads = 0 <=> t_pc = "none"
    /\ d_pc = "loop" => LiveThreads = 0
    /\ Len(dequeued) - Len(cb_log) = IF t_pc = "callback" THEN 1 ELSE 0

\* Witness of C16: the second hook thread, spawned after the first was
\* joined, is about to give a native event to the callback.
C16_Witness ==
    /\ n_spawned = 2
    /\ n_joined = 1
    /\ t_pc = "callback"
    /\ Len(cb_log) >= 1

====
